---- MODULE Spec2Model ----
(***************************************************************************)
(* validobj.custom: InputType, Validator and the Parser factory.          *)
(*                                                                         *)
(* Two application threads each run Parser(func) once, statement by       *)
(* statement, and then invoke the Validator embedded in the annotation    *)
(* they got.  Objects live in a heap keyed by identity; callables and     *)
(* type annotations are values.                                           *)
(***************************************************************************)
EXTENDS Integers, Sequences, FiniteSets, TLC

VARIABLES frame, itObjs, vObjs, calls, lastCall

vars == <<frame, itObjs, vObjs, calls, lastCall>>

\* ---------------------------------------------------------------- bounds
MaxParams == 2
MaxCalls == 1

Threads == {"t1", "t2"}
Args == {"ok", "bad"}

\* ------------------------------------------------------ type annotations
\* An annotation is a logical type (origin) with a sequence of metadata;
\* a plain type carries none.  Metadata are object identities, 0 standing
\* for any metadata that is neither an InputType nor a Validator.
Plain(t) == [origin |-> t, meta |-> <<>>]

\* inspect.Signature.empty: the marker of a missing annotation
Empty == Plain("empty")

\* typing.Any
AnyType == Plain("Any")

NoAnn == Plain("none")

Absent == "<absent>"

\* typing.Annotated[t, m1, m2]: an Annotated t is flattened, its metadata
\* kept in front of the new ones.
Annotated(t, m1, m2) == [origin |-> t.origin, meta |-> t.meta \o <<m1, m2>>]

\* ---------------------------------------------------------------- values
\* A value handed to Validator/Parser: kind "function" (a def, with
\* __name__, __qualname__, __doc__), "instance" (an object with __call__
\* and none of the three names but __doc__ = None), "data" (not callable).
\* attr says what the value's own __dict__ holds under the key "func".
Value(name, kind, params, ret, attr) ==
    [name |-> name, kind |-> kind, params |-> params, ret |-> ret, attr |-> attr]

NoObj == Value(Absent, "absent", <<>>, Empty, "none")

\* def g(x: str) -> int
G == Value("g", "function", <<Plain("str")>>, Plain("int"), "none")

DataObj == Value("data", "data", <<>>, Empty, "none")

\* the annotation an earlier Parser(G) returned: objects 1 and 2
PreInput == 1
PreValidator == 2
PreAnn == Annotated(G.ret, PreInput, PreValidator)

ParamAnn == {Empty, Plain("str")}
ParamSeqs == UNION {[1..n -> ParamAnn] : n \in 0..MaxParams}

SigFuncs ==
    {Value("f", "function", p, r, "none") : p \in ParamSeqs, r \in {Empty, Plain("int")}}

NestedFuncs ==
    {Value("n", "function", <<Plain("str")>>, r, "none") :
        r \in {Annotated(Plain("int"), 0, 0), PreAnn}}

AttrFuncs ==
    {Value("h", k, <<Plain("str")>>, Plain("int"), a) :
        k \in {"function", "instance"}, a \in {"none", "callable", "data"}}

Universe == SigFuncs \cup NestedFuncs \cup AttrFuncs

Names == {"f", "n", "h", "g"}

\* func.__dict__["func"], when present
AttrValue(f) == IF f.attr = "callable" THEN G ELSE DataObj

\* getattr(func, "__name__"), "__qualname__", "__doc__"; Absent when the
\* lookup raises AttributeError
NameOf(f) == IF f.kind = "function" THEN f.name ELSE Absent
QualNameOf(f) == IF f.kind = "function" THEN "mod." \o f.name ELSE Absent
DocOf(f) == IF f.kind = "function" THEN "doc of " \o f.name ELSE "None"

\* ------------------------------------------------------------- InputType
InputTypeInit(type) == [type |-> type]

\* ------------------------------------------------------------- Validator
ValidatorClassDoc == "A wrapper over a validation function"

\* line 45: the instance __dict__ after self.func = func
ValidatorSetFunc(func) ==
    [func |-> func, name |-> Absent, qualname |-> Absent, doc |-> Absent,
     wrapped |-> NoObj]

\* a mutant: the names are not copied
UpdateWrapperNoAssign(self, func) ==
    [self EXCEPT !.func = IF func.attr = "none" THEN @ ELSE AttrValue(func),
                 !.wrapped = func]

\* line 46, functools.update_wrapper(self, func): copy the names func has,
\* then self.__dict__.update(func.__dict__), then set __wrapped__.
UpdateWrapper(self, func) ==
    [self EXCEPT !.name = IF NameOf(func) = Absent THEN @ ELSE NameOf(func),
                 !.qualname = IF QualNameOf(func) = Absent THEN @ ELSE QualNameOf(func),
                 !.doc = DocOf(func),
                 !.func = IF func.attr = "none" THEN @ ELSE AttrValue(func),
                 !.wrapped = func]

ValidatorInit(func) == UpdateWrapper(ValidatorSetFunc(func), func)

\* attribute lookup on a Validator instance: the instance __dict__, then
\* the class (which has a docstring and no __name__ reachable from an instance)
WrapperName(v) == v.name
WrapperQualName(v) == v.qualname
WrapperDoc(v) == IF v.doc = Absent THEN ValidatorClassDoc ELSE v.doc

\* what calling a value does: user code is identified by the value that ran
\* and the argument it got; a value that is not callable raises TypeError.
NoOutcome == [kind |-> "none", by |-> NoObj, val |-> "none"]

Apply(callee, arg) ==
    IF callee.kind = "data"
    THEN [kind |-> "raise", by |-> NoObj, val |-> "TypeError"]
    ELSE [kind |-> IF arg = "bad" THEN "raise" ELSE "return", by |-> callee, val |-> arg]

\* lines 48-49
ValidatorCall(self, arg) == Apply(self.func, arg)

\* ---------------------------------------------------------------- Parser
\* line 108
NoParameters(f) == Len(f.params) = 0

\* lines 110-112
ResolveRet(f) == IF f.ret = Empty THEN AnyType ELSE f.ret

\* a mutant: the annotation of the last parameter
LastParam(f) == f.params[Len(f.params)]

\* line 114
FirstParam(f) == f.params[1]

\* a mutant: the default applies only when the return annotation is missing too
ResolveInpCoupled(f) ==
    IF FirstParam(f) = Empty /\ f.ret = Empty THEN AnyType ELSE FirstParam(f)

\* lines 115-117
ResolveInp(f) == IF FirstParam(f) = Empty THEN AnyType ELSE FirstParam(f)

\* a fresh object identity
NewAddr == Cardinality(DOMAIN itObjs \cup DOMAIN vObjs) + 1

NoFrame ==
    [pc |-> "idle", func |-> NoObj, ret |-> NoAnn, inp |-> NoAnn,
     it |-> 0, v |-> 0, ann |-> NoAnn, err |-> "none"]

Init ==
    /\ frame = [t \in Threads |-> NoFrame]
    /\ itObjs = (PreInput :> InputTypeInit(ResolveInp(G)))
    /\ vObjs = (PreValidator :> ValidatorInit(G))
    /\ calls = [n \in Names |-> 0]
    /\ lastCall = [t |-> "none", arg |-> "none", out |-> NoOutcome]

\* a mutant: the signature is inspected by calling func
IntrospectCalling(t) ==
    /\ frame[t].pc = "idle"
    /\ \E f \in Universe :
         /\ calls[f.name] < MaxCalls
         /\ calls' = [calls EXCEPT ![f.name] = @ + 1]
         /\ IF NoParameters(f)
            THEN frame' = [frame EXCEPT ![t] =
                     [@ EXCEPT !.pc = "raised", !.func = f, !.err = "ValueError"]]
            ELSE frame' = [frame EXCEPT ![t] =
                     [@ EXCEPT !.pc = "resolved", !.func = f,
                               !.ret = ResolveRet(f), !.inp = ResolveInp(f)]]
    /\ UNCHANGED <<itObjs, vObjs, lastCall>>

\* a mutant: the parameter count is checked after InputType is constructed
IntrospectLate(t) ==
    /\ frame[t].pc = "idle"
    /\ \E f \in Universe :
         IF NoParameters(f)
         THEN /\ frame' = [frame EXCEPT ![t] =
                     [@ EXCEPT !.pc = "raised", !.func = f, !.err = "ValueError"]]
              /\ itObjs' = itObjs @@ (NewAddr :> InputTypeInit(AnyType))
         ELSE /\ frame' = [frame EXCEPT ![t] =
                     [@ EXCEPT !.pc = "resolved", !.func = f,
                               !.ret = ResolveRet(f), !.inp = ResolveInp(f)]]
              /\ itObjs' = itObjs
    /\ UNCHANGED <<vObjs, calls, lastCall>>

\* lines 107-117: read the signature, reject or resolve the two annotations
Introspect(t) ==
    /\ frame[t].pc = "idle"
    /\ \E f \in Universe :
         IF NoParameters(f)
         THEN frame' = [frame EXCEPT ![t] =
                  [@ EXCEPT !.pc = "raised", !.func = f, !.err = "ValueError"]]
         ELSE frame' = [frame EXCEPT ![t] =
                  [@ EXCEPT !.pc = "resolved", !.func = f,
                            !.ret = ResolveRet(f), !.inp = ResolveInp(f)]]
    /\ UNCHANGED <<itObjs, vObjs, calls, lastCall>>

\* a mutant: InputType objects are interned by the type they wrap
MakeInputTypeInterned(t) ==
    /\ frame[t].pc = "resolved"
    /\ LET same == {a \in DOMAIN itObjs : itObjs[a] = InputTypeInit(frame[t].inp)}
       IN IF same = {}
          THEN /\ itObjs' = itObjs @@ (NewAddr :> InputTypeInit(frame[t].inp))
               /\ frame' = [frame EXCEPT ![t] = [@ EXCEPT !.pc = "hasInput", !.it = NewAddr]]
          ELSE /\ itObjs' = itObjs
               /\ frame' = [frame EXCEPT ![t] =
                      [@ EXCEPT !.pc = "hasInput", !.it = CHOOSE a \in same : TRUE]]
    /\ UNCHANGED <<vObjs, calls, lastCall>>

\* line 118, InputType(inp)
MakeInputType(t) ==
    /\ frame[t].pc = "resolved"
    /\ itObjs' = itObjs @@ (NewAddr :> InputTypeInit(frame[t].inp))
    /\ frame' = [frame EXCEPT ![t] = [@ EXCEPT !.pc = "hasInput", !.it = NewAddr]]
    /\ UNCHANGED <<vObjs, calls, lastCall>>

\* line 118, Validator(func), up to line 45
MakeValidator(t) ==
    /\ frame[t].pc = "hasInput"
    /\ vObjs' = vObjs @@ (NewAddr :> ValidatorSetFunc(frame[t].func))
    /\ frame' = [frame EXCEPT ![t] = [@ EXCEPT !.pc = "vInit", !.v = NewAddr]]
    /\ UNCHANGED <<itObjs, calls, lastCall>>

\* line 46
WrapValidator(t) ==
    /\ frame[t].pc = "vInit"
    /\ vObjs' = [vObjs EXCEPT ![frame[t].v] = UpdateWrapper(@, frame[t].func)]
    /\ frame' = [frame EXCEPT ![t] = [@ EXCEPT !.pc = "hasV"]]
    /\ UNCHANGED <<itObjs, calls, lastCall>>

\* line 118, the subscription and the return
Return(t) ==
    /\ frame[t].pc = "hasV"
    /\ frame' = [frame EXCEPT ![t] =
           [@ EXCEPT !.pc = "done", !.ann = Annotated(frame[t].ret, frame[t].it, frame[t].v)]]
    /\ UNCHANGED <<itObjs, vObjs, calls, lastCall>>

\* the holder of Parser's annotation invokes its Validator (lines 48-49)
Call(t, arg) ==
    /\ frame[t].pc = "done"
    /\ LET self == vObjs[frame[t].v]
           out == ValidatorCall(self, arg)
       IN /\ lastCall' = [t |-> t, arg |-> arg, out |-> out]
          /\ IF self.func.kind = "data"
             THEN calls' = calls
             ELSE /\ calls[self.func.name] < MaxCalls
                  /\ calls' = [calls EXCEPT ![self.func.name] = @ + 1]
    /\ UNCHANGED <<frame, itObjs, vObjs>>

Next ==
    \E t \in Threads :
        \/ Introspect(t)
        \/ MakeInputType(t)
        \/ MakeValidator(t)
        \/ WrapValidator(t)
        \/ Return(t)
        \/ \E arg \in Args : Call(t, arg)

Spec == Init /\ [][Next]_vars

\* ----------------------------------------------------------- properties
Done(t) == frame[t].pc = "done"
Wrapped(t) == frame[t].pc \in {"hasV", "done"}
Owned(t) == {frame[t].it, frame[t].v} \ {0}
InputTypesOf(ann) == {i \in DOMAIN ann.meta : ann.meta[i] \in DOMAIN itObjs}
ValidatorsOf(ann) == {i \in DOMAIN ann.meta : ann.meta[i] \in DOMAIN vObjs}

\* C1: for f with a single annotated parameter and an annotated return type,
\* the annotation Parser(f) returns has f's return annotation as its logical
\* type, and its metadata hold exactly one InputType, wrapping the parameter
\* annotation, and exactly one Validator, wrapping f, in that order.
C1_OneInputTypeOneValidator ==
    \A t \in Threads :
        LET f == frame[t].func
            ann == frame[t].ann
        IN (Done(t) /\ Len(f.params) = 1 /\ f.params[1] # Empty /\ f.ret # Empty) =>
              /\ Plain(ann.origin) = f.ret
              /\ Cardinality(InputTypesOf(ann)) = 1
              /\ Cardinality(ValidatorsOf(ann)) = 1
              /\ \A i \in InputTypesOf(ann), j \in ValidatorsOf(ann) :
                   /\ i < j
                   /\ itObjs[ann.meta[i]].type = f.params[1]
                   /\ vObjs[ann.meta[j]].func = f

\* C2: calling the Validator embedded in Parser(f) with an argument has the
\* outcome of calling f with it: the same return, the same failure.
C2_CallIsCallOfFunc ==
    lastCall.t # "none" =>
        lastCall.out = Apply(frame[lastCall.t].func, lastCall.arg)

\* C3: Parser on a callable without parameters raises ValueError, and only
\* then; it has constructed no InputType, no Validator and no annotation, so
\* the heap holds only what the other invocations own.
C3_ZeroParametersRaise ==
    /\ \A t \in Threads :
         /\ (frame[t].pc # "idle" /\ Len(frame[t].func.params) = 0) =>
               /\ frame[t].pc = "raised"
               /\ frame[t].err = "ValueError"
               /\ frame[t].it = 0 /\ frame[t].v = 0 /\ frame[t].ann = NoAnn
         /\ frame[t].pc = "raised" => Len(frame[t].func.params) = 0
    /\ DOMAIN itObjs \cup DOMAIN vObjs =
          {PreInput, PreValidator} \cup UNION {Owned(t) : t \in Threads}

C3_Witness ==
    \E t, u \in Threads :
        /\ frame[t].pc = "raised" /\ frame[t].err = "ValueError"
        /\ Done(u)

\* C4: a missing annotation of the first parameter makes the InputType wrap
\* Any, a missing return annotation makes the logical type Any, and each
\* default is taken whether or not the other one is.
C4_DefaultsToAny ==
    \A t \in Threads :
        LET f == frame[t].func
        IN Done(t) =>
              /\ itObjs[frame[t].it].type =
                    (IF f.params[1] = Empty THEN AnyType ELSE f.params[1])
              /\ frame[t].ann.origin =
                    (IF f.ret = Empty THEN "Any" ELSE f.ret.origin)

C4_Witness ==
    \E t, u \in Threads :
        /\ Done(t) /\ Done(u)
        /\ frame[t].func.params[1] = Empty /\ frame[t].func.ret # Empty
        /\ itObjs[frame[t].it].type = AnyType /\ frame[t].ann.origin = "int"
        /\ frame[u].func.params[1] # Empty /\ frame[u].func.ret = Empty
        /\ itObjs[frame[u].it].type = Plain("str") /\ frame[u].ann.origin = "Any"

\* C5: no step of Parser calls a function: the call counts change only in a
\* step that leaves every invocation of Parser where it is, namely the
\* invocation of a Validator by the holder of a finished annotation.
C5_ParserNeverCalls ==
    [][calls' # calls =>
          /\ frame' = frame
          /\ \E t \in Threads, arg \in Args : Done(t) /\ Call(t, arg)]_vars

C5_Witness ==
    /\ \E t \in Threads : Done(t)
    /\ \E t \in Threads : frame[t].pc = "raised"
    /\ \A n \in Names : calls[n] = 0

\* C6: invocations of Parser, interleaved in any way, on the same callable
\* or not, produce objects of their own, and each returns the annotation it
\* returns when it runs alone.
C6_InvocationsIndependent ==
    \A t \in Threads :
        LET f == frame[t].func
        IN /\ \A u \in Threads \ {t} : Owned(t) \cap Owned(u) = {}
           /\ Owned(t) \cap {PreInput, PreValidator} = {}
           /\ Done(t) =>
                 /\ frame[t].it # frame[t].v
                 /\ frame[t].ann = Annotated(ResolveRet(f), frame[t].it, frame[t].v)
                 /\ itObjs[frame[t].it] = InputTypeInit(ResolveInp(f))
                 /\ vObjs[frame[t].v] = ValidatorInit(f)

C6_Witness ==
    \E t, u \in Threads :
        /\ t # u /\ Done(t) /\ Done(u)
        /\ frame[t].func = frame[u].func
        /\ frame[t].it < frame[u].it /\ frame[u].it < frame[t].v

\* C7: an InputType's type and a Validator's func are, in every state after
\* their construction, the values they were constructed with.
C7_WrappedValuesKept ==
    \A t \in Threads :
        /\ frame[t].it # 0 => itObjs[frame[t].it].type = frame[t].inp
        /\ frame[t].v # 0 => vObjs[frame[t].v].func = frame[t].func

\* C8: a callable with several parameters is accepted, and the InputType
\* depends on the first parameter's annotation alone: callables that agree
\* on it and on the return annotation get InputTypes wrapping the same type.
C8_OnlyFirstParameter ==
    \A t, u \in Threads :
        LET f == frame[t].func
            g == frame[u].func
        IN /\ (frame[t].pc # "idle" /\ Len(f.params) >= 1) => frame[t].pc # "raised"
           /\ (Done(t) /\ Done(u) /\ f.params[1] = g.params[1] /\ f.ret = g.ret) =>
                 itObjs[frame[t].it].type = itObjs[frame[u].it].type

C8_Witness ==
    \E t, u \in Threads :
        /\ Done(t) /\ Done(u)
        /\ Len(frame[t].func.params) = 1 /\ Len(frame[u].func.params) > 1
        /\ frame[t].func.params[1] = frame[u].func.params[1]
        /\ frame[t].func.ret = frame[u].func.ret
        /\ frame[u].func.params[Len(frame[u].func.params)] # frame[u].func.params[1]

C10_FuncIsTheArgument ==
    \A t \in Threads :
        frame[t].pc = "hasV" => vObjs[frame[t].v].func = frame[t].func

====
